---- MODULE Spec2Model ----
(***************************************************************************)
(* Model of the MCQ generator web application (src/app.py).                *)
(*                                                                         *)
(* A Python str is modelled as a sequence of lexemes; the str it denotes   *)
(* is the concatenation of the lexemes.  The lexemes used are the section  *)
(* delimiter "## MCQ", the whitespace lexemes "\n" and " ", and words that *)
(* hold no whitespace and no "#", so that str.strip, str.split("## MCQ"),  *)
(* str.join and truthiness act on the lexeme sequence exactly as Python    *)
(* acts on the denoted characters.                                         *)
(*                                                                         *)
(* Python's None, a missing attribute and a raising access are one-element *)
(* sequences holding a reserved marker that no text contains.              *)
(*                                                                         *)
(* A file is written as the operating system does it: opening it for       *)
(* writing creates or truncates it, then the content arrives in chunks at  *)
(* the writer's own position, and the write may raise after any number of  *)
(* chunks.  The unit of a chunk is the lexeme for text, and the whole      *)
(* content for a binary file (pdf, docx, undecodable bytes), which is      *)
(* either complete or unreadable.                                          *)
(***************************************************************************)
EXTENDS Integers, Sequences, FiniteSets, TLC

VARIABLES
    pc,         \* position of each request handler run in generate_mcqs
    filename,   \* local `filename` of each run (after secure_filename)
    uploaded,   \* the document carried by each run's request (request.files['file'])
    text,       \* local `text` of each run
    mcqs,       \* local `mcqs` of each run
    outcome,    \* what each run returned to the HTTP layer
    stages,     \* per run, the stages executed so far, in order
    prompted,   \* per run, the prompts passed to model.generate_content
    wrote,      \* per run, the result files this run wrote successfully
    uploads,    \* the UPLOAD_FOLDER: file name -> document
    results,    \* the RESULTS_FOLDER: file name -> content
    response,   \* per run, what model.generate_content gave this run
    offset      \* per run, the position of the file this run has open for writing

vars == <<pc, filename, uploaded, text, mcqs, outcome, stages, prompted, wrote,
          uploads, results, response, offset>>

----------------------------------------------------------------------------
(* Bounds of the model *)

MaxPages == 2       \* pages of an uploaded PDF
MaxParas == 2       \* paragraphs of an uploaded DOCX
MaxParts == 2       \* content fragments of a service response

(* Program constant *)

PromptCap == 1000   \* input_text[:1000]

----------------------------------------------------------------------------
(* Lexemes and Python values *)

MCQ == "## MCQ"
NL  == "\n"
SP  == " "

None    == <<"<None>">>
Absent  == <<"<no attribute>">>
Raises  == <<"<raises>">>

IsWhitespace(c) == c \in {NL, SP}

\* Python truthiness of a str-or-None value
Truthy(v) == v # None /\ v # <<>>

\* v or ''
OrEmpty(v) == IF Truthy(v) THEN v ELSE <<>>

RECURSIVE LStrip(_)
LStrip(s) ==
    IF s = <<>> THEN <<>>
    ELSE IF IsWhitespace(Head(s)) THEN LStrip(Tail(s)) ELSE s

RECURSIVE RStrip(_)
RStrip(s) ==
    IF s = <<>> THEN <<>>
    ELSE IF IsWhitespace(s[Len(s)]) THEN RStrip(SubSeq(s, 1, Len(s) - 1)) ELSE s

\* str.strip()
Strip(s) == RStrip(LStrip(s))

\* sep.join(items)
RECURSIVE Join(_, _)
Join(items, sep) ==
    IF items = <<>> THEN <<>>
    ELSE IF Len(items) = 1 THEN items[1]
    ELSE items[1] \o <<sep>> \o Join(Tail(items), sep)

\* s.split(delim): k delimiters give k+1 segments
RECURSIVE Split(_, _)
Split(s, delim) ==
    IF \A i \in 1..Len(s) : s[i] # delim THEN <<s>>
    ELSE LET i == CHOOSE k \in 1..Len(s) :
                      s[k] = delim /\ \A j \in 1..(k - 1) : s[j] # delim
         IN  <<SubSeq(s, 1, i - 1)>> \o Split(SubSeq(s, i + 1, Len(s)), delim)

\* s[:n]
Take(s, n) == SubSeq(s, 1, IF Len(s) < n THEN Len(s) ELSE n)

\* all sequences over S of length at most n
SeqsUpTo(S, n) == UNION {[1..k -> S] : k \in 0..n}

----------------------------------------------------------------------------
(* File names.  A name is [stem, ext]: the text before and after the last  *)
(* dot; NoDot as ext stands for a name that holds no dot.                  *)

NoDot == "<no dot>"

ALLOWED_EXTENSIONS == {"pdf", "txt", "docx"}

\* str.lower() on the extensions that occur
Lower(e) == IF e = "PDF" THEN "pdf" ELSE e

allowed_file(name) ==
    name.ext # NoDot /\ Lower(name.ext) \in ALLOWED_EXTENSIONS

\* werkzeug's secure_filename on the stems that occur: path separators
\* become "_" and leading dots and underscores are stripped, so "../a"
\* becomes "a"; a stem of letters is kept.
secure_filename(name) ==
    [stem |-> IF name.stem = "../a" THEN "a" ELSE name.stem, ext |-> name.ext]

\* f"generated_mcqs_{filename.rsplit('.', 1)[0]}.txt" / ".pdf"
ResultName(name, ext) == [stem |-> "generated_mcqs_" \o name.stem, ext |-> ext]

\* a folder is a function from the names of the files it holds to their content
EmptyFolder == [n \in {} |-> <<>>]

Put(folder, name, content) ==
    [n \in DOMAIN folder \cup {name} |-> IF n = name THEN content ELSE folder[n]]

\* the character '\x00' that fills a hole left by writing past the end of a file
NUL == "<NUL>"

\* write(chunk) at position off of a text file holding content
Overwrite(content, off, chunk) ==
    LET padded == content \o [i \in 1..(off - Len(content)) |-> NUL]
        last   == off + Len(chunk)
        n      == IF Len(padded) > last THEN Len(padded) ELSE last
    IN  [i \in 1..n |-> IF i > off /\ i <= last THEN chunk[i - off] ELSE padded[i]]

----------------------------------------------------------------------------
(* Documents.  [kind, parts]: a txt document has one part, its decoded     *)
(* content, or Raises when the bytes are no UTF-8; a pdf has one part per  *)
(* page, what page.extract_text() gives (a str, None, or Raises); a docx   *)
(* has one part per paragraph; a corrupt file cannot be opened by any      *)
(* reader.                                                                 *)

Corrupt == [kind |-> "corrupt", parts |-> <<>>]

extract_text_from_file(file_path, folder) ==
    IF file_path.ext = NoDot THEN None                  \* rsplit(...)[1] raises
    ELSE IF file_path \notin DOMAIN folder THEN None    \* open raises
    ELSE
      LET ext == Lower(file_path.ext)
          doc == folder[file_path]
      IN  IF ext = "pdf" THEN
              IF doc.kind # "pdf" THEN None
              ELSE IF \E i \in 1..Len(doc.parts) : doc.parts[i] = Raises THEN None
              ELSE Join([i \in 1..Len(doc.parts) |-> OrEmpty(doc.parts[i])], NL)
          ELSE IF ext = "docx" THEN
              IF doc.kind # "docx" THEN None
              ELSE Join(doc.parts, NL)
          ELSE IF ext = "txt" THEN
              IF doc.kind # "txt" \/ doc.parts[1] = Raises THEN None
              ELSE doc.parts[1]
          ELSE None

\* file.save(file_path): open(dst, "wb") creates or truncates the file
Truncated(doc) ==
    IF doc.kind = "txt" THEN [kind |-> "txt", parts |-> <<<<>>>>] ELSE Corrupt

\* the number of chunk units of a document
Units(doc) ==
    IF doc.kind = "txt" /\ doc.parts[1] # Raises THEN Len(doc.parts[1]) ELSE 1

\* file.save: the next n units of doc written at position off of the file
CopyChunk(file, doc, off, n) ==
    IF doc.kind = "txt" /\ doc.parts[1] # Raises THEN
        IF file.kind = "txt" /\ file.parts[1] # Raises
        THEN [kind |-> "txt",
              parts |-> <<Overwrite(file.parts[1], off, SubSeq(doc.parts[1], off + 1, off + n))>>]
        ELSE [kind |-> "txt", parts |-> <<Raises>>]
    ELSE doc

----------------------------------------------------------------------------
(* The generation client.  A reply of model.generate_content is            *)
(* [call, text, cand, parts]: call is "raises" when the call raised or     *)
(* timed out; text is response.text (Absent, Raises, None or a str); cand  *)
(* tells whether response.candidates is absent, raises on access or is     *)
(* present, and parts are then the .text of candidates[0].content.parts    *)
(* (Absent or a str each).                                                 *)

Prompt(input_text, num_questions) ==
    [count |-> num_questions, text |-> Take(input_text, PromptCap)]

HasText(part) == part # Absent /\ Truthy(part)

\* a variant that looks at the fragments before the aggregated text
FragmentsFirst_generator(input_text, num_questions, reply) ==
    IF reply.call = "raises" THEN None
    ELSE IF reply.text = Raises THEN None
    ELSE IF reply.cand = "present" /\ SelectSeq(reply.parts, HasText) # <<>>
         THEN Strip(Join(SelectSeq(reply.parts, HasText), NL))
    ELSE IF reply.text # Absent /\ Truthy(reply.text) THEN Strip(reply.text)
    ELSE None

Question_mcqs_generator(input_text, num_questions, reply) ==
    IF reply.call = "raises" THEN None
    ELSE IF reply.text = Raises THEN None
    ELSE IF reply.text # Absent /\ Truthy(reply.text) THEN Strip(reply.text)
    ELSE IF reply.cand = "raises" THEN None
    ELSE IF reply.cand = "present" /\ SelectSeq(reply.parts, HasText) # <<>>
         THEN Strip(Join(SelectSeq(reply.parts, HasText), NL))
    ELSE None

----------------------------------------------------------------------------
(* The artifact writers.  io is what the file system does: io.fails is     *)
(* "never", or the operation that raises; io.after is the number of        *)
(* lexemes that reached the file before a raising write.  Each writer      *)
(* gives the value returned and the folder afterwards.                     *)

\* open(results_path, 'w'): the file exists and is empty
OpenText(folder, name) == Put(folder, name, <<>>)

\* f.write: a chunk at position off
WriteText(folder, name, off, chunk) ==
    Put(folder, name, Overwrite(folder[name], off, chunk))

save_mcqs_to_file(m, name, folder, io) ==
    IF io.fails = "open"
    THEN [ret |-> "None", folder |-> folder]
    ELSE IF io.fails = "write"
    THEN [ret |-> "None",
          folder |-> WriteText(OpenText(folder, name), name, 0, Take(m, io.after))]
    ELSE [ret |-> "results_path",
          folder |-> WriteText(OpenText(folder, name), name, 0, m)]

\* the stripped non-blank blocks of mcqs.split("## MCQ"), one cell each
PdfCells(m) ==
    LET blocks == Split(m, MCQ)
        IsCell(b) == Strip(b) # <<>>
        kept == SelectSeq(blocks, IsCell)
    IN  [i \in 1..Len(kept) |-> Strip(kept[i])]

\* a pdf file: complete, with its cells, or cut short and unreadable
PdfFile(m) == [kind |-> "pdf", cells |-> PdfCells(m)]
TruncatedPdf == [kind |-> "truncated", cells |-> <<>>]

\* pdf.output(pdf_path): open(name, 'wb'), then the write of the buffer
OpenPdf(folder, name) == Put(folder, name, TruncatedPdf)
WritePdfFile(folder, name, m) == Put(folder, name, PdfFile(m))

\* io.fails: "never", "render" (multi_cell raises), "open" or "write"
create_pdf(m, name, folder, io) ==
    IF io.fails \in {"render", "open"}
    THEN [ret |-> "None", folder |-> folder]
    ELSE IF io.fails = "write"
    THEN [ret |-> "None", folder |-> OpenPdf(folder, name)]
    ELSE [ret |-> "pdf_path", folder |-> WritePdfFile(OpenPdf(folder, name), name, m)]

----------------------------------------------------------------------------
(* Inputs: the requests, form fields and service replies the runs draw from *)

PageValues == {None, <<>>, <<"x">>, Raises}
ParaValues == {<<>>, <<"x">>}
BodyValues == {<<>>, <<SP>>, <<"x">>, <<NL, "x", SP>>, Raises}

PdfDocs  == {[kind |-> "pdf", parts |-> p] : p \in SeqsUpTo(PageValues, MaxPages)}
DocxDocs == {[kind |-> "docx", parts |-> p] : p \in SeqsUpTo(ParaValues, MaxParas)}
TxtDocs  == {[kind |-> "txt", parts |-> <<b>>] : b \in BodyValues}

DocsFor(ext) ==
    IF Lower(ext) = "pdf" THEN PdfDocs \cup {Corrupt}
    ELSE IF ext = "docx" THEN DocxDocs \cup {Corrupt}
    ELSE IF ext = "txt" THEN TxtDocs
    ELSE {Corrupt}

Names ==
    {[stem |-> "a", ext |-> e] : e \in {"txt", "pdf", "PDF", "docx", "exe", NoDot}}
    \cup {[stem |-> "../a", ext |-> "txt"]}

NoFilePart == [part |-> FALSE, filename |-> [stem |-> "", ext |-> NoDot], doc |-> Corrupt]

Requests ==
    {NoFilePart} \cup
    UNION {{[part |-> TRUE, filename |-> n, doc |-> d] : d \in DocsFor(n.ext)} : n \in Names}

\* request.form['num_questions']: missing, or the str sent
FormValues == {"<missing>", "abc", "3"}

\* int(value) on the values that occur: it raises on "abc"
IntRaises(value) == value = "abc"
int(value) == CASE value = "3" -> 3

\* a well-formed MCQ block and a malformed one (options B-D and the answer missing)
Good1 ==
    <<MCQ, NL, "Question:", SP, "q1", NL, "A)", "x", NL, "B)", "x", NL,
      "C)", "x", NL, "D)", "x", NL, "Correct Answer:", "B">>
Bad == <<MCQ, NL, "Question:", "q3", NL, "A)", "x">>

\* response.text: short values, and responses in the format asked for
ShortTexts == {Absent, Raises, None, <<>>, <<SP>>, <<"x">>, <<SP, "x", NL>>}
LongTexts  == {Good1, Bad, Good1 \o <<NL>> \o Bad}
PartValues == {Absent, <<>>, <<"x">>, <<"y", NL>>}

Replies ==
    {[call |-> "raises", text |-> Absent, cand |-> "absent", parts |-> <<>>]} \cup
    {[call |-> "ok", text |-> t, cand |-> c, parts |-> <<>>] :
        t \in ShortTexts \cup LongTexts, c \in {"absent", "raises"}} \cup
    {[call |-> "ok", text |-> t, cand |-> "present", parts |-> p] :
        t \in ShortTexts, p \in SeqsUpTo(PartValues, MaxParts)}

----------------------------------------------------------------------------
(* Outcomes returned by generate_mcqs *)

Message(m) == [kind |-> "message", body |-> m]

NoOutcome       == [kind |-> "none"]
Fault           == [kind |-> "unhandled exception"]
NoFilePartMsg   == Message("No file part")
InvalidMsg      == Message("Invalid file format or upload issue")
ExtractionFailed == Message("Text extraction failed.")
GenerationFailed == Message("MCQ generation failed. Check server logs for details.")
ErrorOccurred   == Message("An error occurred during MCQ generation.")
ResultsPage(m, txt, pdf) ==
    [kind |-> "results.html", mcqs |-> m, txt_filename |-> txt, pdf_filename |-> pdf]

----------------------------------------------------------------------------
(* The request handler generate_mcqs, one action per step between its I/O *)

Runs   == {"r1", "r2"}
NoName == [stem |-> "", ext |-> NoDot]

Return(r, o) ==
    /\ pc' = [pc EXCEPT ![r] = "done"]
    /\ outcome' = [outcome EXCEPT ![r] = o]

Log(r, stage) == stages' = [stages EXCEPT ![r] = Append(@, stage)]

\* lines 133-140: the checks on the request, then file.save opening the file
Receive(r, reqs) ==
    /\ pc[r] = "start"
    /\ \E req \in reqs :
         IF ~req.part THEN
             /\ Return(r, NoFilePartMsg)
             /\ UNCHANGED <<filename, uploaded, stages, uploads, offset>>
         ELSE IF ~allowed_file(req.filename) THEN
             /\ Return(r, InvalidMsg)
             /\ UNCHANGED <<filename, uploaded, stages, uploads, offset>>
         ELSE
             /\ filename' = [filename EXCEPT ![r] = secure_filename(req.filename)]
             /\ uploaded' = [uploaded EXCEPT ![r] = req.doc]
             /\ Log(r, "save")
             /\ \E io \in {"ok", "raises"} :
                  IF io = "ok"
                  THEN /\ uploads' = Put(uploads, secure_filename(req.filename),
                                         Truncated(req.doc))
                       /\ offset' = [offset EXCEPT ![r] = 0]
                       /\ pc' = [pc EXCEPT ![r] =
                                    IF Units(req.doc) = 0 THEN "saved" ELSE "saving"]
                       /\ UNCHANGED outcome
                  ELSE /\ Return(r, Fault)      \* file.save raises outside any try
                       /\ UNCHANGED <<uploads, offset>>
    /\ UNCHANGED <<text, mcqs, prompted, wrote, results, response>>

\* line 140: file.save copies the upload in chunks, then closes the file
SaveUpload(r) ==
    /\ pc[r] = "saving"
    /\ \E io \in {"ok", "raises"} :
         IF io = "ok"
         THEN \E n \in 1..(Units(uploaded[r]) - offset[r]) :
                /\ uploads' = Put(uploads, filename[r],
                                  CopyChunk(uploads[filename[r]], uploaded[r], offset[r], n))
                /\ offset' = [offset EXCEPT ![r] = @ + n]
                /\ pc' = [pc EXCEPT ![r] =
                             IF offset[r] + n = Units(uploaded[r]) THEN "saved" ELSE "saving"]
                /\ UNCHANGED outcome
         ELSE /\ Return(r, Fault)               \* file.save raises outside any try
              /\ UNCHANGED <<uploads, offset>>
    /\ UNCHANGED <<filename, uploaded, text, mcqs, stages, prompted, wrote, results,
                   response>>

\* a variant of Extract without the `if not text` return
ExtractUnchecked(r) ==
    /\ pc[r] = "saved"
    /\ text' = [text EXCEPT ![r] = extract_text_from_file(filename[r], uploads)]
    /\ pc' = [pc EXCEPT ![r] = "extracted"]
    /\ Log(r, "extract")
    /\ UNCHANGED <<filename, uploaded, mcqs, outcome, prompted, wrote, uploads, results,
                   response, offset>>

\* lines 142-144
Extract(r) ==
    /\ pc[r] = "saved"
    /\ LET t == extract_text_from_file(filename[r], uploads)
       IN  /\ text' = [text EXCEPT ![r] = t]
           /\ IF ~Truthy(t)
              THEN Return(r, ExtractionFailed)
              ELSE pc' = [pc EXCEPT ![r] = "extracted"] /\ UNCHANGED outcome
    /\ Log(r, "extract")
    /\ UNCHANGED <<filename, uploaded, mcqs, prompted, wrote, uploads, results,
                   response, offset>>

\* a variant of Generate without the `if not mcqs` return
GenerateUnchecked(r, replies) ==
    /\ pc[r] = "extracted"
    /\ \E value \in FormValues :
         IF value = "<missing>" \/ IntRaises(value) THEN
             /\ Return(r, ErrorOccurred)
             /\ UNCHANGED <<mcqs, prompted, stages, response>>
         ELSE
           \E reply \in replies :
             /\ prompted' = [prompted EXCEPT ![r] = Append(@, Prompt(text[r], int(value)))]
             /\ response' = [response EXCEPT ![r] = reply]
             /\ mcqs' = [mcqs EXCEPT ![r] =
                            Question_mcqs_generator(text[r], int(value), reply)]
             /\ Log(r, "generate")
             /\ pc' = [pc EXCEPT ![r] = "generated"]
             /\ UNCHANGED outcome
    /\ UNCHANGED <<filename, uploaded, text, wrote, uploads, results, offset>>

\* lines 146-150 (and 158-160 when int(...) raises)
Generate(r, replies) ==
    /\ pc[r] = "extracted"
    /\ \E value \in FormValues :
         IF value = "<missing>" \/ IntRaises(value) THEN
             /\ Return(r, ErrorOccurred)
             /\ UNCHANGED <<mcqs, prompted, stages, response>>
         ELSE
           \E reply \in replies :
             LET m == Question_mcqs_generator(text[r], int(value), reply)
             IN  /\ prompted' = [prompted EXCEPT ![r] = Append(@, Prompt(text[r], int(value)))]
                 /\ response' = [response EXCEPT ![r] = reply]
                 /\ mcqs' = [mcqs EXCEPT ![r] = m]
                 /\ Log(r, "generate")
                 /\ IF ~Truthy(m)
                    THEN Return(r, GenerationFailed)
                    ELSE pc' = [pc EXCEPT ![r] = "generated"] /\ UNCHANGED outcome
    /\ UNCHANGED <<filename, uploaded, text, wrote, uploads, results, offset>>

\* lines 152, 154: save_mcqs_to_file up to open(results_path, 'w')
SaveTxt(r) ==
    /\ pc[r] = "generated"
    /\ \E io \in {"ok", "raises"} :
         IF io = "ok"
         THEN /\ results' = OpenText(results, ResultName(filename[r], "txt"))
              /\ offset' = [offset EXCEPT ![r] = 0]
              /\ pc' = [pc EXCEPT ![r] = "txt_open"]
         ELSE /\ pc' = [pc EXCEPT ![r] = "txt_saved"]      \* returns None
              /\ UNCHANGED <<results, offset>>
    /\ Log(r, "txt")
    /\ UNCHANGED <<filename, uploaded, text, mcqs, outcome, prompted, wrote, uploads,
                   response>>

\* line 154: save_mcqs_to_file from f.write to its return
WriteTxt(r) ==
    /\ pc[r] = "txt_open"
    /\ \E io \in {"ok", "raises"} :
         IF io = "ok"
         THEN \E n \in 1..(Len(mcqs[r]) - offset[r]) :
                LET done == offset[r] + n = Len(mcqs[r])
                IN  /\ results' = WriteText(results, ResultName(filename[r], "txt"), offset[r],
                                            SubSeq(mcqs[r], offset[r] + 1, offset[r] + n))
                    /\ offset' = [offset EXCEPT ![r] = @ + n]
                    /\ pc' = [pc EXCEPT ![r] = IF done THEN "txt_saved" ELSE "txt_open"]
                    /\ wrote' = [wrote EXCEPT ![r] = IF done THEN @ \cup {"txt"} ELSE @]
         ELSE /\ pc' = [pc EXCEPT ![r] = "txt_saved"]      \* returns None
              /\ UNCHANGED <<results, offset, wrote>>
    /\ UNCHANGED <<filename, uploaded, text, mcqs, outcome, stages, prompted, uploads,
                   response>>

\* lines 153, 155: create_pdf up to the open of pdf.output
CreatePdf(r) ==
    /\ pc[r] = "txt_saved"
    /\ \E io \in {"ok", "raises"} :
         IF io = "ok"
         THEN /\ results' = OpenPdf(results, ResultName(filename[r], "pdf"))
              /\ pc' = [pc EXCEPT ![r] = "pdf_open"]
         ELSE /\ pc' = [pc EXCEPT ![r] = "pdf_created"]    \* returns None
              /\ UNCHANGED results
    /\ Log(r, "pdf")
    /\ UNCHANGED <<filename, uploaded, text, mcqs, outcome, prompted, wrote, uploads,
                   response, offset>>

\* line 155: create_pdf from the write of pdf.output to its return
WritePdf(r) ==
    /\ pc[r] = "pdf_open"
    /\ \E io \in {"ok", "raises"} :
         IF io = "ok"
         THEN /\ results' = WritePdfFile(results, ResultName(filename[r], "pdf"), mcqs[r])
              /\ wrote' = [wrote EXCEPT ![r] = @ \cup {"pdf"}]
         ELSE UNCHANGED <<results, wrote>>                 \* returns None
    /\ pc' = [pc EXCEPT ![r] = "pdf_created"]
    /\ UNCHANGED <<filename, uploaded, text, mcqs, outcome, stages, prompted, uploads,
                   response, offset>>

\* lines 157-160: render_template, or the handler of its exception
Render(r) ==
    /\ pc[r] = "pdf_created"
    /\ \E io \in {"ok", "raises"} :
         IF io = "ok"
         THEN Return(r, ResultsPage(mcqs[r], ResultName(filename[r], "txt"),
                                    ResultName(filename[r], "pdf")))
         ELSE Return(r, ErrorOccurred)
    /\ UNCHANGED <<filename, uploaded, text, mcqs, stages, prompted, wrote, uploads,
                   results, response, offset>>

----------------------------------------------------------------------------
(* One request *)

NoReply == [call |-> "none", text |-> Absent, cand |-> "absent", parts |-> <<>>]

Init ==
    /\ pc = [r \in Runs |-> "start"]
    /\ filename = [r \in Runs |-> NoName]
    /\ uploaded = [r \in Runs |-> Corrupt]
    /\ text = [r \in Runs |-> None]
    /\ mcqs = [r \in Runs |-> None]
    /\ outcome = [r \in Runs |-> NoOutcome]
    /\ stages = [r \in Runs |-> <<>>]
    /\ prompted = [r \in Runs |-> <<>>]
    /\ wrote = [r \in Runs |-> {}]
    /\ uploads = EmptyFolder
    /\ results = EmptyFolder
    /\ response = [r \in Runs |-> NoReply]
    /\ offset = [r \in Runs |-> 0]

Next ==
    \/ Receive("r1", Requests)
    \/ SaveUpload("r1")
    \/ Extract("r1")
    \/ Generate("r1", Replies)
    \/ SaveTxt("r1")
    \/ WriteTxt("r1")
    \/ CreatePdf("r1")
    \/ WritePdf("r1")
    \/ Render("r1")

Spec == Init /\ [][Next]_vars

----------------------------------------------------------------------------
(* Two concurrent requests (Flask serves requests on separate threads);   *)
(* the steps of the two handlers interleave at their I/O.                  *)

ConcNames == {[stem |-> st, ext |-> "txt"] : st \in {"a", "../a", "b"}}
ConcRequests ==
    {[part |-> TRUE, filename |-> n, doc |-> [kind |-> "txt", parts |-> <<b>>]] :
        n \in ConcNames, b \in {<<>>, <<"x", "x">>, <<"y", "y">>}}
ConcReplies ==
    {[call |-> "raises", text |-> Absent, cand |-> "absent", parts |-> <<>>],
     [call |-> "ok", text |-> <<"p", "q">>, cand |-> "absent", parts |-> <<>>]}

NextConc ==
    \E r \in Runs :
        \/ Receive(r, ConcRequests)
        \/ SaveUpload(r)
        \/ Extract(r)
        \/ Generate(r, ConcReplies)
        \/ SaveTxt(r)
        \/ WriteTxt(r)
        \/ CreatePdf(r)
        \/ WritePdf(r)
        \/ Render(r)

SpecConc == Init /\ [][NextConc]_vars

----------------------------------------------------------------------------
(* Vocabulary of the properties *)

Did(r, stage) == \E i \in DOMAIN stages[r] : stages[r][i] = stage

TxtName(r) == ResultName(filename[r], "txt")
PdfName(r) == ResultName(filename[r], "pdf")

\* a text with no character other than whitespace, or no text at all
Blank(t) == t \in {None, Absent} \/ \A i \in 1..Len(t) : IsWhitespace(t[i])

\* the fragments of a reply that carry text, in their order
RECURSIVE Fragments(_)
Fragments(parts) ==
    IF parts = <<>> THEN <<>>
    ELSE IF Head(parts) \in {Absent, <<>>} THEN Fragments(Tail(parts))
    ELSE <<Head(parts)>> \o Fragments(Tail(parts))

\* the call or an access to the response raised
ReplyRaises(reply) ==
    \/ reply.call = "raises"
    \/ reply.text = Raises
    \/ reply.text \in {Absent, None, <<>>} /\ reply.cand = "raises"

\* the aggregated text field is present and non-empty
HasAggregate(reply) == reply.text \notin {Absent, None, <<>>, Raises}

\* the reply carries no non-empty text in either representation
NoTextAtAll(reply) ==
    /\ reply.text \in {Absent, None, <<>>}
    /\ reply.cand = "absent" \/ (reply.cand = "present" /\ Fragments(reply.parts) = <<>>)

\* a block of the response is a well-formed MCQ record: a Question: line
\* with text, after it lines A) B) C) D) with text, and a Correct Answer:
\* line naming one of A-D
StartsWith(line, word) == line # <<>> /\ Head(line) = word
Rest(line) == Strip(Tail(line))
WellFormed(block) ==
    LET lines == Split(block, NL)
        L(i)  == Strip(lines[i])
    IN  /\ \E i \in 1..Len(lines) :
             /\ StartsWith(L(i), "Question:") /\ Rest(L(i)) # <<>>
             /\ \A label \in {"A)", "B)", "C)", "D)"} :
                  \E j \in (i + 1)..Len(lines) :
                      StartsWith(L(j), label) /\ Rest(L(j)) # <<>>
        /\ \E k \in 1..Len(lines) :
             /\ StartsWith(L(k), "Correct Answer:")
             /\ Rest(L(k)) \in {<<"A">>, <<"B">>, <<"C">>, <<"D">>}

\* the well-formed blocks of a raw response, stripped, in their order
ValidRecords(raw) ==
    LET blocks == Split(raw, MCQ)
        IsRecord(b) == WellFormed(b)
        kept == SelectSeq(blocks, IsRecord)
    IN  [i \in 1..Len(kept) |-> Strip(kept[i])]

StageOrder == <<"save", "extract", "generate", "txt", "pdf">>

----------------------------------------------------------------------------
(* C1: when the generation step of a run fails (the call raises or times   *)
(* out, an access to the response raises, or the response carries no       *)
(* non-empty text), the run has ended with the generation-failure message  *)
(* and has written neither the .txt nor the .pdf result file.              *)
C1_GenerationFailureWritesNothing ==
    \A r \in Runs :
        (Did(r, "generate") /\ (ReplyRaises(response[r]) \/ NoTextAtAll(response[r])))
        => /\ pc[r] = "done"
           /\ outcome[r] = GenerationFailed
           /\ wrote[r] = {}
           /\ ~Did(r, "txt") /\ ~Did(r, "pdf")
           /\ TxtName(r) \notin DOMAIN results /\ PdfName(r) \notin DOMAIN results

C1_Witness ==
    \E r \in Runs :
        /\ Did(r, "generate")
        /\ response[r].call = "raises"
        /\ outcome[r] = GenerationFailed

(* C2: a run that ends with the results page, reporting a transcript and a *)
(* document file name, wrote both files, and both exist in the results     *)
(* folder with this run's content.                                         *)
C2_ReportedFilesWereWritten ==
    \A r \in Runs :
        outcome[r].kind = "results.html"
        => /\ wrote[r] = {"txt", "pdf"}
           /\ outcome[r].txt_filename \in DOMAIN results
           /\ outcome[r].pdf_filename \in DOMAIN results
           /\ results[outcome[r].txt_filename] = mcqs[r]
           /\ results[outcome[r].pdf_filename] = PdfFile(mcqs[r])

(* C3: extracted text that is empty or only whitespace is an extraction    *)
(* failure: the run ends with the extraction-failure message and the       *)
(* generation service is never called with it.                             *)
C3_BlankTextIsExtractionFailure ==
    \A r \in Runs :
        (Did(r, "extract") /\ Blank(text[r]))
        => /\ outcome[r] = ExtractionFailed
           /\ prompted[r] = <<>>

(* C4, as stated: the generation client returns the aggregated text itself *)
(* when it is present and non-empty, otherwise the non-empty fragments     *)
(* joined with newlines, otherwise (or when anything raises) a failure.    *)
C4_ReturnsTextUnchanged ==
    \A r \in Runs :
        Did(r, "generate")
        => mcqs[r] =
             IF ReplyRaises(response[r]) THEN None
             ELSE IF HasAggregate(response[r]) THEN response[r].text
             ELSE IF response[r].cand = "present" /\ Fragments(response[r].parts) # <<>>
                  THEN Join(Fragments(response[r].parts), NL)
             ELSE None

(* C4, amended: the text returned is stripped of leading and trailing      *)
(* whitespace (so it is empty when the aggregated text is whitespace       *)
(* only); the order of resolution is as stated, every other case returns   *)
(* None, and no exception escapes the client.                              *)
C4_ReturnsTextStripped ==
    \A r \in Runs :
        Did(r, "generate")
        => /\ mcqs[r] =
                IF ReplyRaises(response[r]) THEN None
                ELSE IF HasAggregate(response[r]) THEN Strip(response[r].text)
                ELSE IF response[r].cand = "present" /\ Fragments(response[r].parts) # <<>>
                     THEN Strip(Join(Fragments(response[r].parts), NL))
                ELSE None
           /\ outcome[r] # Fault

C4_Witness ==
    \E r \in Runs :
        /\ Did(r, "generate")
        /\ response[r].call = "ok"
        /\ response[r].text = <<>>
        /\ response[r].cand = "present"
        /\ response[r].parts = <<Absent, <<"y", NL>>>>
        /\ mcqs[r] = <<"y">>

(* C5: of the blocks of a raw response that holds well-formed and          *)
(* malformed blocks, exactly the well-formed ones are kept, in their       *)
(* order: the transcript, the document and the page returned hold those    *)
(* records and no others.                                                  *)
C5_OnlyWellFormedBlocksKept ==
    \A r \in Runs :
        (Did(r, "generate") /\ Truthy(mcqs[r]) /\ ValidRecords(mcqs[r]) # <<>>)
        => /\ "txt" \in wrote[r]
              => PdfCells(results[TxtName(r)]) = ValidRecords(mcqs[r])
           /\ "pdf" \in wrote[r]
              => results[PdfName(r)].cells = ValidRecords(mcqs[r])
           /\ outcome[r].kind = "results.html"
              => PdfCells(outcome[r].mcqs) = ValidRecords(mcqs[r])

(* C6: a run whose response is non-empty text holding no valid MCQ record  *)
(* ends with a failure and writes no result file.                          *)
C6_NoValidRecordsIsFailure ==
    \A r \in Runs :
        (Did(r, "generate") /\ Truthy(mcqs[r]) /\ ValidRecords(mcqs[r]) = <<>>)
        => /\ wrote[r] = {}
           /\ outcome[r].kind # "results.html"

(* C7: each of two concurrent runs extracts, and sends to the generation   *)
(* service, the text of the document that this run itself uploaded.        *)
OwnText(r) ==
    extract_text_from_file(filename[r], Put(EmptyFolder, filename[r], uploaded[r]))
C7_RunsUseTheirOwnDocument ==
    \A r \in Runs :
        /\ Did(r, "extract") => text[r] = OwnText(r)
        /\ \A i \in DOMAIN prompted[r] :
               prompted[r][i].text = Take(OwnText(r), PromptCap)

(* C8: no run ends with an unhandled fault, whichever step fails.          *)
C8_NoUnhandledFault ==
    \A r \in Runs : pc[r] = "done" => outcome[r] \in
        {NoFilePartMsg, InvalidMsg, ExtractionFailed, GenerationFailed, ErrorOccurred,
         ResultsPage(mcqs[r], TxtName(r), PdfName(r))}

(* C9: for a PDF, pages that yield no text are skipped: extraction         *)
(* succeeds when some page yields text, and the run ends with the          *)
(* extraction-failure message when no page does, whatever the page count.  *)
YieldsNothing(page) == page \in {None, <<>>}
C9_PdfPagesWithoutText ==
    \A r \in Runs :
        (/\ Did(r, "extract")
         /\ Lower(filename[r].ext) = "pdf"
         /\ uploaded[r].kind = "pdf"
         /\ \A i \in 1..Len(uploaded[r].parts) : uploaded[r].parts[i] # Raises)
        => LET pages == uploaded[r].parts
           IN  IF \A i \in 1..Len(pages) : YieldsNothing(pages[i])
               THEN outcome[r] = ExtractionFailed
               ELSE Truthy(text[r]) /\ outcome[r] # ExtractionFailed

(* C10: the stages of a run occur in one fixed order, none twice: the      *)
(* service is called at most once and only after extraction gave text; the *)
(* transcript is written only after generation gave text and the document  *)
(* only after the transcript write; a failure at extraction or generation  *)
(* ends the run with no later stage.                                       *)
C10_StagesInOrder ==
    \A r \in Runs :
        /\ Len(stages[r]) <= Len(StageOrder)
        /\ stages[r] = SubSeq(StageOrder, 1, Len(stages[r]))
        /\ Len(prompted[r]) <= 1
        /\ (Did(r, "generate") <=> prompted[r] # <<>>)
        /\ Did(r, "generate") => Truthy(text[r])
        /\ Did(r, "txt") => Truthy(mcqs[r])
        /\ outcome[r] = ExtractionFailed
           => pc[r] = "done" /\ stages[r] = SubSeq(StageOrder, 1, 2) /\ wrote[r] = {}
        /\ outcome[r] = GenerationFailed
           => pc[r] = "done" /\ stages[r] = SubSeq(StageOrder, 1, 3) /\ wrote[r] = {}
        /\ (Did(r, "extract") /\ ~Truthy(text[r])) => outcome[r] = ExtractionFailed
        /\ (Did(r, "generate") /\ ~Truthy(mcqs[r])) => outcome[r] = GenerationFailed

C10_Witness ==
    \E r \in Runs :
        /\ pc[r] = "done"
        /\ stages[r] = StageOrder
        /\ outcome[r].kind = "results.html"
        /\ wrote[r] = {"txt", "pdf"}

====
